---------------------------- MODULE Spec2Model ----------------------------
(***************************************************************************)
(* A model of PRoot's path translation engine (src/path/path.c).           *)
(*                                                                         *)
(* A path is a C string: here a sequence of one-byte strings, without its  *)
(* terminating NUL.  C index i of a string p is p[i + 1]; the byte at C    *)
(* index Len(p) is the terminator, written NUL.                            *)
(***************************************************************************)
EXTENDS Integers, Sequences, FiniteSets, TLC

(***************************************************************************)
(* Limits and values from the C headers.  PATH_MAX and NAME_MAX are 4096   *)
(* and 255 on Linux; the model scales them down so that the length checks  *)
(* of the code are reached with short paths.                               *)
(***************************************************************************)
PATH_MAX == 20

NAME_MAX == 7

\* Longest generated string in the comparator's, joiner's and lexer's inputs.
MaxLen == 4

EPERM == 1

ENOENT == 2

ENOTDIR == 20

ENAMETOOLONG == 36

ELOOP == 40

AT_FDCWD == -100

NUL == "NUL"

\* The null pointer, where a path is expected: no string has this value.
NULL == <<"NULL">>

(***************************************************************************)
(* C string helpers.                                                       *)
(***************************************************************************)
\* p[i] in C, for 0 <= i <= strlen(p).
At(p, i) == IF i < Len(p) THEN p[i + 1] ELSE NUL

\* The first n bytes of p (n <= strlen(p)).
Take(p, n) == SubSeq(p, 1, n)

\* p + n in C: the string that starts at C index n.
Drop(p, n) == SubSeq(p, n + 1, Len(p))

\* All strings over alphabet A of length at most n.
Strs(A, n) == UNION {[1..k -> A] : k \in 0..n}

\* The element of a singleton set.  Only({e(x) : x \in {v}}) computes v once
\* and then e(v), as C does with a local variable.
Only(S) == CHOOSE x \in S : TRUE

\* n copies of byte c.
Fill(c, n) == [i \in 1..n |-> c]

\* strncmp(p1, p2, n) == 0: the bytes are compared up to n bytes or up to
\* the terminator of either string.
RECURSIVE strncmp_eq(_, _, _, _)
strncmp_eq(p1, p2, i, n) ==
    IF i >= n THEN TRUE
    ELSE IF At(p1, i) # At(p2, i) THEN FALSE
    ELSE IF At(p1, i) = NUL THEN TRUE
    ELSE strncmp_eq(p1, p2, i + 1, n)

(***************************************************************************)
(* next_component: the path lexer.                                         *)
(***************************************************************************)
\* while (**cursor != '\0' && **cursor == '/') (*cursor)++;
RECURSIVE SkipSlashes(_, _)
SkipSlashes(p, c) ==
    IF At(p, c) # NUL /\ At(p, c) = "/" THEN SkipSlashes(p, c + 1) ELSE c

\* while (**cursor != '\0' && **cursor != '/') (*cursor)++;
RECURSIVE SkipName(_, _)
SkipName(p, c) ==
    IF At(p, c) # NUL /\ At(p, c) # "/" THEN SkipName(p, c + 1) ELSE c

\* A mutant of next_component: the directory expectation is lost.
next_component_nodir(p, cursor) ==
    LET start == SkipSlashes(p, cursor)
        stop == SkipName(p, start)
        length == stop - start
        after == SkipSlashes(p, stop)
    IN  IF length >= NAME_MAX
        THEN [status |-> "-ENAMETOOLONG", component |-> <<>>, cursor |-> stop]
        ELSE [status |-> IF At(p, after) = NUL THEN "FINAL_NORMAL" ELSE "NOT_FINAL",
              component |-> SubSeq(p, start + 1, stop),
              cursor |-> after]

\* The status returned, the component extracted and the cursor as updated.
\* On -ENAMETOOLONG the component buffer is not written and the cursor is
\* left at the end of the over-long component.
next_component(p, cursor) ==
    LET start == SkipSlashes(p, cursor)
        stop == SkipName(p, start)
        length == stop - start
        want_dir == (At(p, stop) = "/")
        after == SkipSlashes(p, stop)
    IN  IF length >= NAME_MAX
        THEN [status |-> "-ENAMETOOLONG", component |-> <<>>, cursor |-> stop]
        ELSE [status |-> IF At(p, after) = NUL
                         THEN (IF want_dir THEN "FINAL_SLASH" ELSE "FINAL_NORMAL")
                         ELSE "NOT_FINAL",
              component |-> SubSeq(p, start + 1, stop),
              cursor |-> after]

(***************************************************************************)
(* pop_component.                                                          *)
(***************************************************************************)
\* while (offset > 1 && path[offset] == '/') offset--;
RECURSIVE BackSlashes(_, _)
BackSlashes(p, o) == IF o > 1 /\ At(p, o) = "/" THEN BackSlashes(p, o - 1) ELSE o

\* while (offset > 1 && path[offset] != '/') offset--;
RECURSIVE BackName(_, _)
BackName(p, o) == IF o > 1 /\ At(p, o) # "/" THEN BackName(p, o - 1) ELSE o

\* The path with an end-of-string put right before its last component.
\* The path is never empty here (assert(offset >= 0)).
pop_component(p) ==
    LET offset == Len(p) - 1
    IN  IF offset = 0 THEN p
        ELSE Take(p, BackName(p, BackSlashes(p, offset)))

(***************************************************************************)
(* join_paths.                                                             *)
(***************************************************************************)
\* One iteration of the loop over the variadic arguments; acc is
\* [status, result], and the loop is left at the first -ENAMETOOLONG.
join_step(acc, p) ==
    IF acc.status # 0 \/ p = NULL THEN acc
    ELSE LET result == acc.result
             length == Len(result)
             need_separator ==
                 IF length > 0 /\ At(result, length - 1) # "/" /\ At(p, 0) # "/" THEN 1
                 ELSE IF length > 0 /\ At(result, length - 1) = "/" /\ At(p, 0) = "/" THEN -1
                 ELSE 0
         IN  IF length + Len(p) + need_separator >= PATH_MAX
             THEN [status |-> -ENAMETOOLONG, result |-> result]
             ELSE [status |-> 0,
                   result |-> CASE need_separator = -1 -> result \o Drop(p, 1)
                                [] need_separator = 1 -> result \o <<"/">> \o p
                                [] OTHER -> result \o p]

RECURSIVE join_loop(_, _, _)
join_loop(acc, paths, i) ==
    IF i > Len(paths) THEN acc
    ELSE Only({join_loop(next, paths, i + 1) : next \in {join_step(acc, paths[i])}})

\* A mutant of join_paths: the doubled separator is not elided.
join_paths_noelide(paths) ==
    LET F[i \in 0..Len(paths)] ==
            IF i = 0 THEN [status |-> 0, result |-> <<>>]
            ELSE IF F[i - 1].status # 0 \/ paths[i] = NULL THEN F[i - 1]
            ELSE LET r == F[i - 1].result
                     sep == IF Len(r) > 0 /\ At(r, Len(r) - 1) # "/" /\ At(paths[i], 0) # "/"
                            THEN <<"/">> ELSE <<>>
                 IN  IF Len(r) + Len(sep) + Len(paths[i]) >= PATH_MAX
                     THEN [status |-> -ENAMETOOLONG, result |-> r]
                     ELSE [status |-> 0, result |-> r \o sep \o paths[i]]
    IN  F[Len(paths)]

\* join_paths(number_paths, result, ...): [status, result].
join_paths(paths) == join_loop([status |-> 0, result |-> <<>>], paths, 1)

(***************************************************************************)
(* compare_paths.                                                          *)
(***************************************************************************)
\* A mutant of compare_paths2: the sentinel byte is not looked at.
compare_paths2_nosentinel(path1, len1, path2, len2) ==
    IF len1 = 0 \/ len2 = 0 THEN "PATHS_ARE_NOT_COMPARABLE"
    ELSE LET length1 == IF At(path1, len1 - 1) = "/" THEN len1 - 1 ELSE len1
             length2 == IF At(path2, len2 - 1) = "/" THEN len2 - 1 ELSE len2
             length_min == IF length1 < length2 THEN length1 ELSE length2
         IN  IF ~strncmp_eq(path1, path2, 0, length_min) THEN "PATHS_ARE_NOT_COMPARABLE"
             ELSE IF length1 = length2 THEN "PATHS_ARE_EQUAL"
             ELSE IF length1 < length2 THEN "PATH1_IS_PREFIX"
             ELSE "PATH2_IS_PREFIX"

compare_paths2(path1, len1, path2, len2) ==
    IF len1 = 0 \/ len2 = 0 THEN "PATHS_ARE_NOT_COMPARABLE"
    ELSE LET length1 == IF At(path1, len1 - 1) = "/" THEN len1 - 1 ELSE len1
             length2 == IF At(path2, len2 - 1) = "/" THEN len2 - 1 ELSE len2
             length_min == IF length1 < length2 THEN length1 ELSE length2
             sentinel == IF length1 < length2 THEN At(path2, length_min)
                         ELSE At(path1, length_min)
         IN  IF sentinel # "/" /\ sentinel # NUL THEN "PATHS_ARE_NOT_COMPARABLE"
             ELSE IF ~strncmp_eq(path1, path2, 0, length_min) THEN "PATHS_ARE_NOT_COMPARABLE"
             ELSE IF length1 = length2 THEN "PATHS_ARE_EQUAL"
             ELSE IF length1 < length2 THEN "PATH1_IS_PREFIX"
             ELSE "PATH2_IS_PREFIX"

compare_paths(path1, path2) ==
    Only({compare_paths2(p1, Len(p1), p2, Len(p2)) : p1 \in {path1}, p2 \in {path2}})

(***************************************************************************)
(* Path literals.                                                          *)
(***************************************************************************)
Slash == <<"/">>

n_jail == <<"j", "a", "i", "l">>

n_etc == <<"e", "t", "c">>

n_cfg == <<"c", "f", "g">>

n_proc == <<"p", "r", "o", "c">>

n_shadow == <<"s", "h", "a", "d", "o", "w">>

n_dotdot == <<".", ".">>

n_dot == <<".">>

n_a == <<"a">>

n_b == <<"b">>

n_l == <<"l">>

n_up == <<"u", "p">>

n_out == <<"o", "u", "t">>

n_cwd == <<"c", "w", "d">>

n_fd == <<"f", "d">>

n_pid == <<"1">>

\* The absolute path made of the given components.
RECURSIVE Abs(_)
Abs(comps) ==
    IF comps = <<>> THEN <<>> ELSE Slash \o Head(comps) \o Abs(Tail(comps))

\* The relative path made of the given components (at least one).
Rel(comps) == Tail(Abs(comps))

(***************************************************************************)
(* The host file system the tracer runs on: what lstat/readlink answer.    *)
(* It is the environment of the program, fixed here to one small tree:     *)
(*   /jail/{etc/shadow, a/b, a/up -> "../..", l -> "/../../etc",           *)
(*          b -> "b"},  /etc/{a -> "/etc/b", b, shadow},  /out, /proc/1   *)
(***************************************************************************)
HostDirs ==
    {Slash, Abs(<<n_jail>>), Abs(<<n_jail, n_etc>>), Abs(<<n_jail, n_a>>),
     Abs(<<n_etc>>), Abs(<<n_out>>), Abs(<<n_proc>>), Abs(<<n_proc, n_pid>>)}

HostFiles ==
    {Abs(<<n_jail, n_etc, n_shadow>>), Abs(<<n_jail, n_a, n_b>>),
     Abs(<<n_etc, n_b>>), Abs(<<n_etc, n_shadow>>)}

HostLinks ==
    {<<Abs(<<n_jail, n_l>>), Abs(<<n_dotdot, n_dotdot, n_etc>>)>>,
     <<Abs(<<n_jail, n_a, n_up>>), Rel(<<n_dotdot, n_dotdot>>)>>,
     <<Abs(<<n_jail, n_b>>), Rel(<<n_b>>)>>,
     <<Abs(<<n_etc, n_a>>), Abs(<<n_etc, n_b>>)>>}

IsLink(h) == \E l \in HostLinks : l[1] = h

LinkTarget(h) == (CHOOSE l \in HostLinks : l[1] = h)[2]

\* lstat(2) of a host path: "link", "dir", "file", or "none" when it fails.
Kind(h) ==
    IF IsLink(h) THEN "link"
    ELSE IF h \in HostDirs THEN "dir"
    ELSE IF h \in HostFiles THEN "file"
    ELSE "none"

(***************************************************************************)
(* The binding table (path/binding.c).  tracee.bindings is the table in    *)
(* insertion order, each entry [host, guest]; the guest rootfs is the      *)
(* entry [host |-> tracee.root, guest |-> "/"].                            *)
(***************************************************************************)
IsPrefixOrEqual(prefix, path) ==
    compare_paths(prefix, path) \in {"PATHS_ARE_EQUAL", "PATH1_IS_PREFIX"}

Other(side) == IF side = "HOST" THEN "GUEST" ELSE "HOST"

SideOf(binding, side) == IF side = "HOST" THEN binding.host ELSE binding.guest

\* The index of the binding that applies to path on the given side: the
\* longest prefix wins, and among equal lengths the later entry; 0 if none.
Longest(tracee, side, matching) ==
    {i \in matching :
        \A j \in matching :
            \/ Len(SideOf(tracee.bindings[j], side)) < Len(SideOf(tracee.bindings[i], side))
            \/ /\ Len(SideOf(tracee.bindings[j], side)) = Len(SideOf(tracee.bindings[i], side))
               /\ j <= i}

get_binding(tracee, side, path) ==
    Only({IF matching = {} THEN 0 ELSE Only(Longest(tracee, side, matching)) :
            matching \in {{i \in 1..Len(tracee.bindings) :
                              IsPrefixOrEqual(SideOf(tracee.bindings[i], side), path)}}})

\* The other side's prefix of the binding that applies, or NULL.
get_path_binding(tracee, side, path) ==
    LET i == get_binding(tracee, side, path)
    IN  IF i = 0 THEN NULL ELSE SideOf(tracee.bindings[i], Other(side))

\* path with the prefix `from` replaced by `to`; "/" as a prefix stands for
\* the empty string, and the empty result for "/".
ReplacePrefix(path, from, to) ==
    LET skip == IF from = Slash THEN 0 ELSE Len(from)
        rest == IF Drop(path, skip) = Slash THEN <<>> ELSE Drop(path, skip)
        new == (IF to = Slash THEN <<>> ELSE to) \o rest
    IN  IF new = <<>> THEN Slash ELSE new

\* [status, path]: 1 and the rewritten path (SUBSTITUTED), 0 for a symmetric
\* binding (UNCHANGED), -errno when no binding applies or the rewritten path
\* does not fit (NO_MATCH); the path is rewritten only with status 1.
substitute_binding2(binding, side, path) ==
    Only({IF Len(new) >= PATH_MAX THEN [status |-> -ENAMETOOLONG, path |-> path]
          ELSE [status |-> 1, path |-> new] :
            new \in {ReplacePrefix(path, SideOf(binding, side),
                                   SideOf(binding, Other(side)))}})

substitute_binding(tracee, side, path) ==
    Only({IF i = 0 THEN [status |-> -ENOENT, path |-> p]
          ELSE IF tracee.bindings[i].host = tracee.bindings[i].guest
          THEN [status |-> 0, path |-> p]
          ELSE substitute_binding2(tracee.bindings[i], side, p) :
            i \in {get_binding(tracee, side, path)}, p \in {path}})

(***************************************************************************)
(* The canonicalizer (path/canon.c).                                       *)
(***************************************************************************)
\* The limit on symbolic link dereferences (40 is suggested), scaled down.
MAXSYMLINKS == 3

\* The host path of an accumulated guest path, for lstat and readlink.
HostOf(tracee, guest) == substitute_binding(tracee, "GUEST", guest).path

\* The input that remains once a symbolic link is replaced by its target.
Prepend(target, rest, finality) ==
    IF rest # <<>> THEN target \o Slash \o rest
    ELSE IF finality = "FINAL_SLASH" THEN target \o Slash
    ELSE target

\* A component other than "." and ".." has been appended to the accumulator
\* (joined) and its host path looked at (kind, target); nc is what the
\* lexer returned and rest the input that follows.
RECURSIVE canon_loop(_, _, _, _, _)
canon_entry(tracee, joined, kind, target, nc, rest, deref_final, links) ==
    LET final == nc.status # "NOT_FINAL"
        input2 == Prepend(target, rest, nc.status)
        fail(e) == [status |-> -e, result |-> joined, links |-> links]
    IN  IF kind = "link" /\ (~final \/ deref_final)
        THEN IF links >= MAXSYMLINKS THEN fail(ELOOP)
             ELSE IF Len(input2) >= PATH_MAX THEN fail(ENAMETOOLONG)
             ELSE canon_loop(tracee,
                             IF At(target, 0) = "/" THEN Slash
                             ELSE pop_component(joined),
                             input2, deref_final, links + 1)
        ELSE IF ~final
        THEN IF kind = "none" THEN fail(ENOENT)
             ELSE IF kind # "dir" THEN fail(ENOTDIR)
             ELSE canon_loop(tracee, joined, rest, deref_final, links)
        ELSE IF nc.status = "FINAL_SLASH" /\ kind # "dir" THEN fail(ENOTDIR)
        ELSE [status |-> 0, result |-> joined, links |-> links]

\* The next component of the input has been pulled.
canon_component(tracee, acc, nc, rest, deref_final, links) ==
    LET final == nc.status # "NOT_FINAL"
        fail(e) == [status |-> -e, result |-> acc, links |-> links]
        done(a) == [status |-> 0, result |-> a, links |-> links]
    IN  IF nc.status = "-ENAMETOOLONG" THEN fail(ENAMETOOLONG)
        ELSE IF nc.component = <<>> \/ nc.component = n_dot
        THEN IF final THEN done(acc)
             ELSE canon_loop(tracee, acc, rest, deref_final, links)
        ELSE IF nc.component = n_dotdot
        THEN IF final THEN done(pop_component(acc))
             ELSE canon_loop(tracee, pop_component(acc), rest, deref_final, links)
        ELSE Only({IF joined.status < 0 THEN fail(ENAMETOOLONG)
                   ELSE Only({canon_entry(tracee, joined.result, Kind(host),
                                          IF IsLink(host) THEN LinkTarget(host) ELSE <<>>,
                                          nc, rest, deref_final, links) :
                                host \in {HostOf(tracee, joined.result)}}) :
                     joined \in {join_paths(<<acc, nc.component>>)}})

\* [status, result, links]: result is the accumulator, links the number of
\* symbolic links dereferenced.
canon_loop(tracee, acc0, input0, deref_final, links) ==
    Only({Only({canon_component(tracee, acc, nc, Drop(input, nc.cursor),
                                deref_final, links) :
                  nc \in {next_component(input, 0)}}) :
            acc \in {acc0}, input \in {input0}})

\* canonicalize(tracee, fake_path, deref_final, result, 0): result holds the
\* guest base on entry.
canonicalize(tracee, fake_path, deref_final, result) ==
    canon_loop(tracee, result, fake_path, deref_final, 0)

(***************************************************************************)
(* detranslate_path and belongs_to_guestfs.                                *)
(***************************************************************************)
belongs_to_guestfs(tracee, host_path) ==
    compare_paths(tracee.root, host_path) \in {"PATHS_ARE_EQUAL", "PATH1_IS_PREFIX"}

\* A mutant of strip_root: a rootfs of "/" is not special-cased.
strip_root_nospecial(tracee, path, sanity_check) ==
    LET comparison == compare_paths(tracee.root, path)
        stripped == Drop(path, Len(tracee.root))
    IN  IF comparison = "PATH1_IS_PREFIX"
        THEN [status |-> Len(stripped) + 1, path |-> stripped]
        ELSE IF comparison = "PATHS_ARE_EQUAL"
        THEN [status |-> 2, path |-> Slash]
        ELSE [status |-> IF sanity_check THEN -EPERM ELSE 0, path |-> path]

\* A mutant of strip_root: the path is not checked to be within the root.
strip_root_nocheck(tracee, path, sanity_check) ==
    LET comparison == compare_paths(tracee.root, path)
        prefix_length == IF Len(tracee.root) = 1 THEN 0 ELSE Len(tracee.root)
        stripped == Drop(path, prefix_length)
    IN  IF comparison = "PATH1_IS_PREFIX"
        THEN [status |-> Len(stripped) + 1, path |-> stripped]
        ELSE IF comparison = "PATHS_ARE_EQUAL"
        THEN [status |-> 2, path |-> Slash]
        ELSE [status |-> 0, path |-> path]

\* The switch on compare_paths(tracee->root, path) that ends
\* detranslate_path: [status, path].
strip_root(tracee, path, sanity_check) ==
    LET comparison == compare_paths(tracee.root, path)
        prefix_length == IF Len(tracee.root) = 1 THEN 0 ELSE Len(tracee.root)
        stripped == Drop(path, prefix_length)
    IN  IF comparison = "PATH1_IS_PREFIX"
        THEN [status |-> Len(stripped) + 1, path |-> stripped]
        ELSE IF comparison = "PATHS_ARE_EQUAL"
        THEN [status |-> 2, path |-> Slash]
        ELSE [status |-> IF sanity_check THEN -EPERM ELSE 0, path |-> path]

\* A mutant of substitute_or_strip: the bindings are never followed.
substitute_or_strip_nosubst(tracee, path, sanity_check, follow_binding) ==
    [follow_binding |-> follow_binding] @@ strip_root(tracee, path, sanity_check)

\* detranslate_path from "if (follow_binding)" on: [status, path,
\* follow_binding].
substitute_or_strip(tracee, path, sanity_check, follow_binding) ==
    Only({IF follow_binding /\ sb.status = 0
          THEN [status |-> 0, path |-> path, follow_binding |-> follow_binding]
          ELSE IF follow_binding /\ sb.status = 1
          THEN [status |-> Len(sb.path) + 1, path |-> sb.path,
                follow_binding |-> follow_binding]
          ELSE [follow_binding |-> follow_binding]
                   @@ strip_root(tracee, path, sanity_check) :
            sb \in {IF follow_binding THEN substitute_binding(tracee, "HOST", path)
                    ELSE [status |-> -ENOENT, path |-> path]}})

\* The components of a path, in order.
RECURSIVE Components(_)
Components(p) ==
    LET start == SkipSlashes(p, 0)
        stop == SkipName(p, start)
    IN  IF start = stop THEN <<>>
        ELSE <<SubSeq(p, start + 1, stop)>> \o Components(Drop(p, stop))

\* The links of /proc the emulator recognizes: /proc/<pid>/{cwd,root,exe}
\* and /proc/<pid>/fd/<n>.
IsProcLink(referrer) ==
    \E c \in {Components(referrer)} :
        /\ Len(c) \in {3, 4}
        /\ c[1] = n_proc
        /\ \/ Len(c) = 3 /\ c[3] \in {n_cwd, <<"r", "o", "o", "t">>, <<"e", "x", "e">>}
           \/ Len(c) = 4 /\ c[3] = n_fd

\* readlink_proc2 (path/proc.c): [length, path]; the length of the
\* rewritten path, or 0 when no rewrite applies.
readlink_proc2(tracee, proc_path, referrer) ==
    IF ~IsProcLink(referrer) THEN [length |-> 0, path |-> proc_path]
    ELSE Only({IF d.status > 0 THEN [length |-> Len(d.path), path |-> d.path]
               ELSE [length |-> 0, path |-> proc_path] :
                 d \in {substitute_or_strip(tracee, proc_path, TRUE, TRUE)}})

\* A mutant of follows_binding: any binding of the path is followed.
follows_binding_any(tracee, path, t_referrer) ==
    get_path_binding(tracee, "HOST", path) # NULL

\* follow_binding as set for a symbolic link whose referrer is neither under
\* /proc nor in the guest rootfs.
follows_binding(tracee, path, t_referrer) ==
    \E binding_referree \in {get_path_binding(tracee, "HOST", path)},
       binding_referrer \in {get_path_binding(tracee, "HOST", t_referrer)} :
        /\ binding_referree # NULL
        /\ compare_paths(binding_referree, binding_referrer) = "PATHS_ARE_EQUAL"

\* [status, path, follow_binding]: the value returned, the path buffer on
\* return, and whether the bindings were followed.
detranslate_path(tracee, path, t_referrer) ==
    IF At(path, 0) # "/"
    THEN [status |-> 0, path |-> path, follow_binding |-> FALSE]
    ELSE IF t_referrer = NULL
    THEN substitute_or_strip(tracee, path, TRUE, TRUE)
    ELSE IF compare_paths(Abs(<<n_proc>>), t_referrer) = "PATH1_IS_PREFIX"
    THEN Only({IF rp.length # 0
               THEN [status |-> rp.length + 1, path |-> rp.path,
                     follow_binding |-> FALSE]
               ELSE substitute_or_strip(tracee, path, FALSE, TRUE) :
                 rp \in {readlink_proc2(tracee, path, t_referrer)}})
    ELSE IF ~belongs_to_guestfs(tracee, t_referrer)
    THEN substitute_or_strip(tracee, path, FALSE,
                             follows_binding(tracee, path, t_referrer))
    ELSE substitute_or_strip(tracee, path, FALSE, FALSE)

(***************************************************************************)
(* translate_path.  env holds what the environment answers during the      *)
(* call: env.link is readlink(2) of the "virtual" link ([status, target]), *)
(* env.isdir is S_ISDIR(statl.st_mode) after stat(2), env.hook is what     *)
(* notify_extensions(GUEST_PATH) returns and leaves in result.             *)
(* The value is [status, result, stage, canon, links]: stage is the last   *)
(* step entered, canon the canonical guest path once canonicalize is done  *)
(* and links the number of symbolic links it went through.                 *)
(***************************************************************************)
Ret(status, result, stage, canon, links) ==
    [status |-> status, result |-> result, stage |-> stage, canon |-> canon,
     links |-> links]

\* A mutant of translate_canonical: the final binding substitution is left
\* out.
translate_canonical_nosubst(tracee, c) ==
    Ret(0, c.result, "done", c.result, c.links)

\* The final binding substitution, which converts the canonical guest path
\* into a host path.
translate_canonical(tracee, c) ==
    Only({IF sb.status < 0 THEN Ret(sb.status, sb.path, "substitute", c.result, c.links)
          ELSE Ret(0, sb.path, "done", c.result, c.links) :
            sb \in {substitute_binding(tracee, "GUEST", c.result)}})

\* From notify_extensions() on, the guest base being in result.
translate_from_base(tracee, result, fake_path, deref_final, env) ==
    IF env.hook.status < 0 THEN Ret(env.hook.status, result, "hook", NULL, 0)
    ELSE IF env.hook.status > 0 THEN Ret(0, env.hook.result, "skip", NULL, 0)
    ELSE Only({IF c.status < 0
               THEN Ret(c.status, c.result, "canonicalize", NULL, c.links)
               ELSE translate_canonical(tracee, c) :
                 c \in {canonicalize(tracee, fake_path, deref_final, result)}})

translate_path(tracee, dir_fd, fake_path, deref_final, env) ==
    IF At(fake_path, 0) = "/"
    THEN translate_from_base(tracee, Slash, fake_path, deref_final, env)
    ELSE IF env.link.status < 0 THEN Ret(-EPERM, <<>>, "readlink", NULL, 0)
    ELSE IF env.link.status >= PATH_MAX
    THEN Ret(-ENAMETOOLONG, env.link.target, "readlink", NULL, 0)
    ELSE IF dir_fd # AT_FDCWD /\ ~env.isdir
    THEN Ret(-ENOTDIR, env.link.target, "stat", NULL, 0)
    ELSE Only({IF d.status < 0 THEN Ret(d.status, d.path, "detranslate", NULL, 0)
               ELSE translate_from_base(tracee, d.path, fake_path, deref_final, env) :
                 d \in {detranslate_path(tracee, env.link.target, NULL)}})

(***************************************************************************)
(* The state: the tracee the supervisor works for, the operation it has    *)
(* called ("none" between two calls), that call's arguments (with the      *)
(* environment's answers) and what the call returned and left in its       *)
(* buffers.  The supervisor serializes the calls made for a tracee.        *)
(***************************************************************************)
VARIABLES tracee, op, args, out

vars == <<tracee, op, args, out>>

\* Longest generated list of components in the translator's inputs.
MaxComps == 2

Roots == {Slash, Abs(<<n_jail>>)}

b_etc_cfg == [host |-> Abs(<<n_etc>>), guest |-> Abs(<<n_cfg>>)]

b_a_b == [host |-> Abs(<<n_jail, n_a>>), guest |-> Abs(<<n_b>>)]

b_etc_etc == [host |-> Abs(<<n_etc>>), guest |-> Abs(<<n_etc>>)]

\* The -b options, in the order given.
UserBindings == {<<>>, <<b_etc_cfg>>, <<b_etc_cfg, b_a_b>>, <<b_etc_etc>>}

Tracees ==
    {[root |-> r, bindings |-> <<[host |-> r, guest |-> Slash]>> \o u] :
        r \in Roots, u \in UserBindings}

NoTracee == [root |-> Slash, bindings |-> <<[host |-> Slash, guest |-> Slash]>>]

GenComps == {n_dotdot, n_etc, n_cfg, n_a}

CompLists == UNION {[1..k -> GenComps] : k \in 1..MaxComps}

FakePaths ==
    UNION {{Abs(cs), Abs(cs) \o Slash, Rel(cs)} : cs \in CompLists}
    \cup {<<>>, Slash, Slash \o Slash \o n_a \o Slash \o Slash,
          Abs(<<n_dot>>), Abs(<<n_etc, n_dot, n_shadow>>), Rel(<<n_dot>>),
          Rel(<<n_a>>) \o Slash,
          Abs(<<n_dotdot, n_dotdot, n_etc, n_shadow>>),
          Abs(<<n_l, n_shadow>>), Abs(<<n_l>>), Abs(<<n_a, n_up, n_etc>>),
          Abs(<<n_a, n_up>>), Abs(<<n_b>>), Abs(<<n_b, n_a>>), Abs(<<n_cfg, n_a>>),
          Abs(<<n_cfg, n_b>>), Abs(<<n_etc, n_shadow, n_dotdot>>),
          Abs(<<n_etc, n_shadow>>) \o Slash, Abs(<<n_a, n_b>>),
          Abs(<<Fill("a", NAME_MAX)>>), Abs(<<Fill("a", NAME_MAX - 1)>>),
          Abs(<<n_a, Fill("a", PATH_MAX - 3)>>),
          Abs(<<n_cfg, Fill("a", NAME_MAX - 1), Fill("b", NAME_MAX - 1)>>),
          Rel(<<n_b>>), Rel(<<n_shadow>>)}

\* What readlink(2) of /proc/<pid>/cwd may answer.
CwdLinks ==
    {[status |-> Len(t), target |-> t] :
        t \in {Abs(<<n_jail>>), Abs(<<n_jail, n_a>>), Abs(<<n_etc>>), Abs(<<n_out>>)}}
    \cup {[status |-> -1, target |-> <<>>],
          [status |-> PATH_MAX, target |-> Fill("a", PATH_MAX)]}

\* What readlink(2) of /proc/<pid>/fd/<dir_fd> may answer.
FdLinks ==
    {[status |-> Len(t), target |-> t] :
        t \in {Abs(<<n_jail, n_etc>>), Abs(<<n_jail, n_etc, n_shadow>>),
               Abs(<<n_jail, n_out>>), Abs(<<n_out>>)}}
    \cup {[status |-> -1, target |-> <<>>]}

NoLink == [status |-> -1, target |-> <<>>]

\* S_ISDIR(statl.st_mode) after stat(result, &statl), the return value of
\* which is not looked at: when stat fails statl is not written, and the
\* test reads whatever the stack held.
StatIsDir(link) ==
    IF link.status < 0 \/ link.status >= PATH_MAX THEN {FALSE}
    ELSE IF Kind(link.target) = "none" THEN BOOLEAN
    ELSE {Kind(link.target) = "dir"}

\* What the extensions may answer to GUEST_PATH.
Hooks ==
    {[status |-> 0, result |-> <<>>], [status |-> -EPERM, result |-> <<>>],
     [status |-> 1, result |-> Abs(<<n_out>>)]}

\* The paths detranslate_path is given: host paths, and targets of symbolic
\* links as readlink(2) returned them.
HostPaths ==
    {Slash, Abs(<<n_jail>>), Abs(<<n_jail, n_etc, n_shadow>>), Abs(<<n_jail, n_a, n_b>>),
     Abs(<<n_etc>>), Abs(<<n_etc, n_b>>), Abs(<<n_out>>), Abs(<<n_out, n_b>>),
     Abs(<<n_jail>>) \o n_a, Abs(<<n_proc, n_pid>>),
     Rel(<<n_b>>), Rel(<<n_dotdot, n_dotdot>>), <<>>,
     Abs(<<n_etc, n_dotdot, n_b>>), Abs(<<n_etc>>) \o Slash \o Slash \o n_b,
     Abs(<<n_jail, n_a>>) \o Slash}

Referrers ==
    {NULL, Abs(<<n_etc, n_a>>), Abs(<<n_jail, n_l>>), Abs(<<n_jail, n_a, n_up>>),
     Abs(<<n_out, n_l>>), Abs(<<n_proc, n_pid, n_cwd>>),
     Abs(<<n_proc, n_pid, n_fd, <<"3">>>>), Abs(<<n_proc, n_pid, n_a>>)}

Init ==
    /\ tracee \in Tracees
    /\ op = "none"
    /\ args = <<>>
    /\ out = <<>>

\* The supervisor translates a path argument of a system call.  dir_fd and
\* the links of /proc are not looked at for an absolute path.
Translate ==
    \E fake_path \in FakePaths, deref_final \in BOOLEAN, hook \in Hooks :
      \E dir_fd \in IF At(fake_path, 0) = "/" THEN {AT_FDCWD} ELSE {AT_FDCWD, 3} :
        \E link \in IF At(fake_path, 0) = "/" THEN {NoLink}
                    ELSE IF dir_fd = AT_FDCWD THEN CwdLinks ELSE FdLinks :
            \E isdir \in IF dir_fd = AT_FDCWD THEN {FALSE} ELSE StatIsDir(link) :
                LET env == [link |-> link, isdir |-> isdir, hook |-> hook]
                IN  /\ op = "none"
                    /\ op' = "translate_path"
                    /\ args' = [dir_fd |-> dir_fd, fake_path |-> fake_path,
                                deref_final |-> deref_final, env |-> env]
                    /\ out' = translate_path(tracee, dir_fd, fake_path, deref_final, env)
                    /\ UNCHANGED tracee

\* detranslate_path aborts on assert(binding_referrer != NULL).
ReferrerBound(path, t_referrer) ==
    \/ At(path, 0) # "/"
    \/ t_referrer = NULL
    \/ compare_paths(Abs(<<n_proc>>), t_referrer) = "PATH1_IS_PREFIX"
    \/ belongs_to_guestfs(tracee, t_referrer)
    \/ get_path_binding(tracee, "HOST", t_referrer) # NULL

\* The supervisor detranslates a host path the kernel returned.
Detranslate ==
    \E path \in HostPaths, t_referrer \in Referrers :
        /\ op = "none"
        /\ ReferrerBound(path, t_referrer)
        /\ op' = "detranslate_path"
        /\ args' = [path |-> path, t_referrer |-> t_referrer]
        /\ out' = detranslate_path(tracee, path, t_referrer)
        /\ UNCHANGED tracee

\* The supervisor detranslates the host path it has just translated.
DetranslateResult ==
    /\ op = "translate_path"
    /\ out.status = 0
    /\ op' = "translate_detranslate"
    /\ out' = [translated |-> out] @@ detranslate_path(tracee, out.result, NULL)
    /\ UNCHANGED <<tracee, args>>

\* The call is over: the supervisor goes on to the next system call.
Return ==
    /\ op # "none"
    /\ op' = "none"
    /\ args' = <<>>
    /\ out' = <<>>
    /\ UNCHANGED tracee

Next == Translate \/ Detranslate \/ DetranslateResult \/ Return

Spec == Init /\ [][Next]_vars

(***************************************************************************)
(* The lexer on its own: a path is split by repeated calls, as the         *)
(* canonicalizer does, until a call says the component is the last one.    *)
(***************************************************************************)
LexPaths ==
    Strs({"/", "a", "."}, MaxLen)
    \cup {Fill("a", NAME_MAX), Fill("a", NAME_MAX - 1),
          Slash \o Fill("a", NAME_MAX - 1) \o Slash,
          Fill("a", NAME_MAX) \o Slash \o n_a,
          n_a \o Slash \o Fill("a", NAME_MAX + 1) \o Slash \o n_a}

InitLexer ==
    /\ tracee = NoTracee
    /\ op = "none"
    /\ args \in {[path |-> p] : p \in LexPaths}
    /\ out = [cursor |-> 0]

\* out.from is the cursor the call started at.
NextComponent ==
    /\ IF op = "none" THEN TRUE ELSE out.status = "NOT_FINAL"
    /\ op' = "next_component"
    /\ out' = [from |-> out.cursor] @@ next_component(args.path, out.cursor)
    /\ UNCHANGED <<tracee, args>>

NextLexer == NextComponent

SpecLexer == InitLexer /\ [][NextLexer]_vars

(***************************************************************************)
(* The comparator on its own.                                              *)
(***************************************************************************)
AbsPaths == {Slash \o t : t \in Strs({"/", "a", "b"}, MaxLen - 1)}

InitCompare ==
    /\ tracee = NoTracee
    /\ op = "none"
    /\ args \in {[path1 |-> p1, path2 |-> p2] : p1 \in AbsPaths, p2 \in AbsPaths}
    /\ out = <<>>

Compare ==
    /\ op = "none"
    /\ op' = "compare_paths"
    /\ out' = compare_paths(args.path1, args.path2)
    /\ UNCHANGED <<tracee, args>>

NextCompare == Compare

SpecCompare == InitCompare /\ [][NextCompare]_vars

(***************************************************************************)
(* The joiner on its own, with two fragments.                              *)
(***************************************************************************)
Fragments ==
    Strs({"/", "a"}, MaxLen - 1)
    \cup {NULL, Fill("a", PATH_MAX - 1), Fill("a", PATH_MAX - 2),
          Fill("a", PATH_MAX - 3) \o Slash}

InitJoin ==
    /\ tracee = NoTracee
    /\ op = "none"
    /\ args \in {[a |-> a, b |-> b] : a \in Fragments, b \in Fragments}
    /\ out = <<>>

Join ==
    /\ op = "none"
    /\ op' = "join_paths"
    /\ out' = join_paths(<<args.a, args.b>>)
    /\ UNCHANGED <<tracee, args>>

NextJoin == Join

SpecJoin == InitJoin /\ [][NextJoin]_vars

(***************************************************************************)
(* Vocabulary of the properties.                                           *)
(***************************************************************************)
\* Absolute and canonical: "/" or /c1/.../cn with no ci empty, "." or "..".
Canonical(p) ==
    \/ p = Slash
    \/ /\ Components(p) # <<>>
       /\ p = Abs(Components(p))
       /\ \A i \in 1..Len(Components(p)) : Components(p)[i] \notin {n_dot, n_dotdot}

\* What every returned path has to be.
WellFormed(p) == Canonical(p) /\ Len(p) <= PATH_MAX - 1

\* The canonical guest form of an absolute guest path that goes through no
\* symbolic link: "." is dropped and ".." removes the component before it.
RECURSIVE Normalize(_, _)
Normalize(stack, comps) ==
    IF comps = <<>> THEN stack
    ELSE Normalize(IF Head(comps) = n_dot THEN stack
                   ELSE IF Head(comps) = n_dotdot
                   THEN (IF stack = <<>> THEN <<>> ELSE SubSeq(stack, 1, Len(stack) - 1))
                   ELSE Append(stack, Head(comps)),
                   Tail(comps))

CanonGuest(p) ==
    IF Normalize(<<>>, Components(p)) = <<>> THEN Slash
    ELSE Abs(Normalize(<<>>, Components(p)))

HasDoubleSlash(p) == \E i \in 1..(Len(p) - 1) : p[i] = "/" /\ p[i + 1] = "/"

EndsWithSlash(p) == Len(p) > 0 /\ p[Len(p)] = "/"

\* The end of the longest run of slashes (slash = TRUE) or of other bytes
\* (slash = FALSE) that starts right after the first `from` bytes of r.
RunEnd(r, from, slash) ==
    CHOOSE m \in from..Len(r) :
        /\ \A i \in (from + 1)..m : (r[i] = "/") = slash
        /\ m = Len(r) \/ (r[m + 1] = "/") # slash

\* The specified comparator; with keep_root a "/" that is the whole path
\* is not trimmed.
Trimmed(p, keep_root) ==
    IF EndsWithSlash(p) /\ (~keep_root \/ Len(p) > 1) THEN Take(p, Len(p) - 1) ELSE p

Comparator(p1, p2, keep_root) ==
    LET t1 == Trimmed(p1, keep_root)
        t2 == Trimmed(p2, keep_root)
    IN  IF Len(t1) = Len(t2)
        THEN (IF t1 = t2 THEN "PATHS_ARE_EQUAL" ELSE "PATHS_ARE_NOT_COMPARABLE")
        ELSE IF Len(t1) < Len(t2)
        THEN (IF At(p2, Len(t1)) \in {"/", NUL} /\ Take(t2, Len(t1)) = t1
              THEN "PATH1_IS_PREFIX" ELSE "PATHS_ARE_NOT_COMPARABLE")
        ELSE (IF At(p1, Len(t2)) \in {"/", NUL} /\ Take(t1, Len(t2)) = t2
              THEN "PATH2_IS_PREFIX" ELSE "PATHS_ARE_NOT_COMPARABLE")

Escape == Abs(<<n_dotdot, n_dotdot, n_etc, n_shadow>>)

(***************************************************************************)
(* C1.  Translated paths stay inside the guest rootfs or a binding.        *)
(***************************************************************************)
Translated == op = "translate_path" /\ args.env.hook.status = 0 /\ out.status = 0

\* C1: when the hook returns 0 and translate_path returns 0, result lies under
\* the rootfs host path or under the host side of a binding whose guest side
\* is a prefix of the canonical guest path; with rootfs /jail and no binding
\* over /etc, "/../../etc/shadow" gives "/jail/etc/shadow".
C1_Confined ==
    Translated =>
        /\ \/ IsPrefixOrEqual(tracee.root, out.result)
           \/ \E i \in 1..Len(tracee.bindings) :
                  /\ IsPrefixOrEqual(tracee.bindings[i].guest, out.canon)
                  /\ IsPrefixOrEqual(tracee.bindings[i].host, out.result)
        /\ (/\ tracee.root = Abs(<<n_jail>>)
            /\ args.fake_path = Escape
            /\ get_binding(tracee, "GUEST", Abs(<<n_etc, n_shadow>>)) = 1)
               => out.result = Abs(<<n_jail, n_etc, n_shadow>>)

C1_Witness ==
    /\ Translated
    /\ tracee.root = Abs(<<n_jail>>)
    /\ args.fake_path = Escape
    /\ out.result = Abs(<<n_jail, n_etc, n_shadow>>)

(***************************************************************************)
(* C2.  Returned paths are absolute, canonical and fit the buffer.         *)
(***************************************************************************)
\* C2 as stated: every path left by a successful translate_path or by a
\* successful detranslate_path is absolute, canonical and at most
\* PATH_MAX - 1 bytes long, whatever the input.
C2_AlwaysWellFormed ==
    /\ (op = "translate_path" /\ out.status = 0) => WellFormed(out.result)
    /\ (op \in {"detranslate_path", "translate_detranslate"} /\ out.status >= 0)
           => WellFormed(out.path)

\* C2 amended: a successful translate_path in which the hook returned 0
\* leaves such a path, and so does a successful detranslate_path whose
\* input path is itself absolute and canonical.
C2_WellFormed ==
    /\ Translated => WellFormed(out.result)
    /\ (op = "detranslate_path" /\ out.status >= 0 /\ WellFormed(args.path))
           => WellFormed(out.path)
    /\ (op = "translate_detranslate" /\ out.status >= 0
            /\ WellFormed(out.translated.result))
           => WellFormed(out.path)

C2_Witness ==
    /\ op = "detranslate_path"
    /\ tracee.root = Abs(<<n_jail>>)
    /\ args.path = Abs(<<n_jail, n_a, n_b>>)
    /\ args.t_referrer = Abs(<<n_jail, n_l>>)
    /\ out.status = 5
    /\ out.path = Abs(<<n_a, n_b>>)

(***************************************************************************)
(* C3.  Detranslation after translation.                                   *)
(***************************************************************************)
RoundTrip ==
    /\ op = "translate_detranslate"
    /\ At(args.fake_path, 0) = "/"
    /\ args.env.hook.status = 0
    /\ out.translated.links = 0

\* C3 as stated: for an absolute guest path that goes through no symbolic
\* link, detranslating the translated path leaves the canonical guest form
\* of the path, whatever the rootfs and the binding table.
C3_LeftInverse ==
    RoundTrip => out.status >= 0 /\ out.path = CanonGuest(args.fake_path)

\* The host path is looked up to the binding that translated the guest path.
SameBindingBack ==
    get_binding(tracee, "HOST", out.translated.result)
        = get_binding(tracee, "GUEST", out.translated.canon)

\* C3 amended: the same, for the paths whose translated host path is looked
\* up (longest host side) to the binding that translated them.
C3_LeftInverseSameBinding ==
    (RoundTrip /\ SameBindingBack)
        => out.status >= 0 /\ out.path = CanonGuest(args.fake_path)

C3_Witness ==
    /\ RoundTrip
    /\ SameBindingBack
    /\ args.fake_path = Abs(<<n_dotdot, n_cfg>>) \o Slash
    /\ out.translated.result = Abs(<<n_etc>>)
    /\ out.path = Abs(<<n_cfg>>)

(***************************************************************************)
(* C4.  What detranslate_path returns.                                     *)
(***************************************************************************)
\* C4: detranslate_path returns 0 exactly when it leaves the path unchanged,
\* the length of the new path plus 1 when it rewrote it, and a negative
\* errno otherwise.
C4_ReturnClassifies ==
    op = "detranslate_path" =>
        \/ out.status < 0
        \/ out.status = 0 /\ out.path = args.path
        \/ out.status = Len(out.path) + 1 /\ out.path # args.path

(***************************************************************************)
(* C5.  Paths outside the guest rootfs and outside every binding.          *)
(***************************************************************************)
Outside ==
    /\ op = "detranslate_path"
    /\ At(args.path, 0) = "/"
    /\ get_binding(tracee, "HOST", args.path) = 0
    /\ ~belongs_to_guestfs(tracee, args.path)

LinkOfBinding ==
    /\ op = "detranslate_path"
    /\ At(args.path, 0) = "/"
    /\ args.t_referrer # NULL
    /\ compare_paths(Abs(<<n_proc>>), args.t_referrer) # "PATH1_IS_PREFIX"
    /\ ~belongs_to_guestfs(tracee, args.t_referrer)

SameBinding ==
    /\ get_binding(tracee, "HOST", args.path) # 0
    /\ get_binding(tracee, "HOST", args.path)
           = get_binding(tracee, "HOST", args.t_referrer)

\* C6: with a referrer that is neither under /proc nor in the guest rootfs,
\* the binding substitution is applied to the path if and only if the path
\* and the referrer resolve to the same binding; with -b /etc:/cfg, "/etc/b"
\* referred to by "/etc/a" becomes "/cfg/b".
C6_SameBinding ==
    LinkOfBinding =>
        /\ out.follow_binding <=> SameBinding
        /\ SameBinding =>
               out.path = substitute_binding(tracee, "HOST", args.path).path
        /\ ~SameBinding =>
               \/ out.path = args.path
               \/ tracee.root \o out.path = args.path
               \/ args.path = tracee.root /\ out.path = Slash
        /\ (/\ args.path = Abs(<<n_etc, n_b>>)
            /\ args.t_referrer = Abs(<<n_etc, n_a>>)
            /\ b_etc_cfg \in {tracee.bindings[i] : i \in 1..Len(tracee.bindings)})
               => out.path = Abs(<<n_cfg, n_b>>) /\ out.status = 7

C6_Witness ==
    /\ LinkOfBinding
    /\ args.path = Abs(<<n_etc, n_b>>)
    /\ args.t_referrer = Abs(<<n_etc, n_a>>)
    /\ out.path = Abs(<<n_cfg, n_b>>)

(***************************************************************************)
(* C7.  The comparator.                                                    *)
(***************************************************************************)
\* C7 as stated: compare_paths is the specified comparator, in which one
\* trailing "/" is ignored unless it is the sole character of the path.
C7_Comparator ==
    op = "compare_paths" => out = Comparator(args.path1, args.path2, TRUE)

\* C7 amended: compare_paths is the specified comparator with one trailing
\* "/" ignored on each path, also when it is the sole character: "/" is
\* compared as the empty prefix, equal to "/" and a prefix of every other
\* absolute path.
C7_ComparatorTrimsRoot ==
    op = "compare_paths" => out = Comparator(args.path1, args.path2, FALSE)

C7_Witness ==
    /\ op = "compare_paths"
    /\ args.path1 = Slash
    /\ args.path2 = Abs(<<n_a, n_b>>)
    /\ out = "PATH1_IS_PREFIX"

(***************************************************************************)
(* C8.  The join law.                                                      *)
(***************************************************************************)
Joined == op = "join_paths" /\ out.status = 0

\* C8 as stated: the result of join_paths(2, result, a, b) never contains
\* "//" and does not end with "/" unless a = b = "/".
C8_JoinLaw ==
    Joined =>
        /\ ~HasDoubleSlash(out.result)
        /\ EndsWithSlash(out.result) => (args.a = Slash /\ args.b = Slash)

\* C8 amended: the result contains no "//" when neither fragment contains
\* "//"; it ends with "/" exactly when b ends with "/", or b is the empty
\* string and a is a non-empty string, or b is NULL and a ends with "/".
C8_JoinLawCanonicalFragments ==
    Joined =>
        /\ (~HasDoubleSlash(args.a) /\ ~HasDoubleSlash(args.b))
               => ~HasDoubleSlash(out.result)
        /\ EndsWithSlash(out.result) <=>
               \/ args.b # NULL /\ EndsWithSlash(args.b)
               \/ args.b = <<>> /\ args.a \notin {NULL, <<>>}
               \/ args.b = NULL /\ args.a # NULL /\ EndsWithSlash(args.a)

C8_Witness ==
    /\ Joined
    /\ args.a = Abs(<<n_a>>)
    /\ args.b = Slash \o n_a \o Slash
    /\ out.result = Abs(<<n_a, n_a>>) \o Slash

(***************************************************************************)
(* C9.  A relative path anchored at a descriptor.                          *)
(***************************************************************************)
AnchoredAtFd ==
    /\ op = "translate_path"
    /\ At(args.fake_path, 0) # "/"
    /\ args.dir_fd # AT_FDCWD
    /\ args.env.link.status >= 0
    /\ args.env.link.status < PATH_MAX

\* C9: translate_path goes past the anchor only if stat shows the target of
\* /proc/<pid>/fd/<dir_fd> to be a directory; otherwise, also when stat
\* fails, it returns -ENOTDIR before detranslation, hook and canonicalization.
C9_DirectoryVerified ==
    AnchoredAtFd =>
        IF Kind(args.env.link.target) = "dir"
        THEN out.stage \notin {"readlink", "stat"}
        ELSE out.status = -ENOTDIR /\ out.stage = "stat"

(***************************************************************************)
(* C10.  The lexer.                                                        *)
(***************************************************************************)
\* The input the call reads, and where in it the leading slashes, the
\* component and the slashes that follow the component end.
Rest == Drop(args.path, out.from)

LeadEnd == RunEnd(Rest, 0, TRUE)

NameEnd == RunEnd(Rest, LeadEnd, FALSE)

TrailEnd == RunEnd(Rest, NameEnd, TRUE)

BytesRemain == TrailEnd < Len(Rest)

\* C10 as stated: NOT_FINAL if and only if bytes remain after the slashes
\* that follow the component; otherwise FINAL_SLASH if the input ends right
\* after a slash and FINAL_NORMAL if not; -ENAMETOOLONG if and only if the
\* component is NAME_MAX bytes or longer; the component is a non-empty string
\* without "/".
C10_Lexer ==
    op = "next_component" =>
        /\ out.status = "NOT_FINAL" <=> BytesRemain
        /\ (~BytesRemain /\ EndsWithSlash(args.path)) => out.status = "FINAL_SLASH"
        /\ (~BytesRemain /\ ~EndsWithSlash(args.path)) => out.status = "FINAL_NORMAL"
        /\ out.status = "-ENAMETOOLONG" <=> NameEnd - LeadEnd >= NAME_MAX
        /\ out.component # <<>>
        /\ \A i \in 1..Len(out.component) : out.component[i] # "/"

\* C10 amended: -ENAMETOOLONG if and only if the component is NAME_MAX bytes
\* or longer, and then nothing else is reported; otherwise NOT_FINAL if and
\* only if bytes remain after the slashes that follow the component,
\* FINAL_SLASH if none remain and a slash follows the component, FINAL_NORMAL
\* if the input ends with the component; the component has no "/" and is
\* empty exactly when the path is empty or made of slashes only, where the
\* call returns FINAL_NORMAL.
C10_LexerEmptyComponent ==
    op = "next_component" =>
        /\ out.status = "-ENAMETOOLONG" <=> NameEnd - LeadEnd >= NAME_MAX
        /\ out.status # "-ENAMETOOLONG" =>
               /\ out.status = "NOT_FINAL" <=> BytesRemain
               /\ out.status = "FINAL_SLASH" <=> (~BytesRemain /\ NameEnd < Len(Rest))
               /\ out.status = "FINAL_NORMAL" <=> (~BytesRemain /\ NameEnd = Len(Rest))
               /\ out.component = SubSeq(Rest, LeadEnd + 1, NameEnd)
               /\ \A i \in 1..Len(out.component) : out.component[i] # "/"
               /\ out.component = <<>> <=>
                      (out.from = 0 /\ \A i \in 1..Len(args.path) : args.path[i] = "/")
               /\ out.component = <<>> => out.status = "FINAL_NORMAL"

C10_Witness ==
    /\ op = "next_component"
    /\ args.path = Slash
    /\ out.component = <<>>
    /\ out.status = "FINAL_NORMAL"

=============================================================================
